---- MODULE Spec2Model ----
(***************************************************************************)
(* Model of the paged memory allocation simulator (paged_memory.cpp):      *)
(* class PagedMemoryManager driven by the menu loop of main().             *)
(***************************************************************************)
EXTENDS Integers, Sequences, FiniteSets, TLC

\* ------------------------------------------------------------------ bounds
\* Largest page size, frame count, job size and number of accepted jobs tried.
MaxPageSize == 2
MaxFrames == 3
MaxJobSize == 4
MaxJobs == 2

\* ------------------------------------------------------- program constants
MAX_JOB_SIZE == 104857600
MAX_PAGE_SIZE == 1048576
MAX_TOTAL_FRAMES == 1000

\* ------------------------------------------------------------------- state
VARIABLES pageSize, totalFrames, frames, pages, jobs, pageTable,
          nextJobId, nextPageNumber,
          last,              \* the last menu operation: arguments and what it reported
          issuedJobIds,      \* history: every job id handed out so far
          issuedPageNumbers, \* history: every page number handed out so far
          assignedFrame,     \* history: page number -> frame chosen when it was allocated
          inflight,          \* per caller: the acceptJob call it is inside of, if any
          raced              \* history: an acceptJob started while another was under way

state == <<pageSize, totalFrames, frames, pages, jobs, pageTable, nextJobId, nextPageNumber>>
history == <<issuedJobIds, issuedPageNumbers, assignedFrame>>
callers == <<inflight, raced>>
vars == <<pageSize, totalFrames, frames, pages, jobs, pageTable, nextJobId, nextPageNumber,
          last, issuedJobIds, issuedPageNumbers, assignedFrame, inflight, raced>>

\* ------------------------------------------------------------ input domains
JobNames == {"A"}
JobSizes == (0 .. MaxJobSize) \cup {MAX_JOB_SIZE, MAX_JOB_SIZE + 1}
JobIdArgs == 0 .. (MaxJobs + 1)
AddressArgs == -1 .. MaxJobSize

\* the callers of the manager; main() is the only one that ever calls
Callers == {"c1", "c2"}

\* a caller that is not inside acceptJob
NotCalling == [pc |-> "idle", jobName |-> "", jobSize |-> 0, id |-> 0, pagesNeeded |-> 0,
               shuffled |-> <<>>]

\* ----------------------------------------------------------------- helpers
NoReport == [op |-> "none", status |-> "ok", jobName |-> "", jobId |-> 0, jobSize |-> 0,
             logicalAddress |-> 0, pagesAllocated |-> 0, internalFragmentation |-> 0,
             pageNumbers |-> <<>>, pageNumber |-> 0, offset |-> 0, actualPageNumber |-> 0,
             frameNumber |-> 0, physicalAddress |-> 0, framesFreed |-> 0, usedFrames |-> 0]

\* the elements of a vector
Range(seq) == {seq[k] : k \in 1..Len(seq)}

\* std::map insert-or-assign: pageTable[key] = value
MapPut(m, key, value) == [k \in (DOMAIN m) \cup {key} |-> IF k = key THEN value ELSE m[k]]

\* std::map erase of a key
MapErase(m, key) == [k \in (DOMAIN m) \ {key} |-> m[k]]

\* index of the first job whose id is jobId, 0 when there is none
FindJob(js, jobId) ==
    IF \E i \in 1..Len(js) : js[i].id = jobId
    THEN CHOOSE i \in 1..Len(js) : js[i].id = jobId /\ \A k \in 1..(i-1) : js[k].id # jobId
    ELSE 0

\* number of frames with isOccupied == false
CountFree(fr) == Cardinality({i \in DOMAIN fr : ~fr[i].isOccupied})

\* number of frames with isOccupied == true
CountUsed(fr) == Cardinality({i \in DOMAIN fr : fr[i].isOccupied})

\* ------------------------------------------------------------- construction
\* main() only constructs the manager with 0 < pageSize <= 1MB, 0 < totalFrames <= 1000
ValidConfig(ps, tf) == ps > 0 /\ ps <= MAX_PAGE_SIZE /\ tf > 0 /\ tf <= MAX_TOTAL_FRAMES

InitFrames(ps, tf) ==
    [i \in 0..(tf-1) |-> [frameNumber |-> i, isOccupied |-> FALSE, jobId |-> -1,
                          pageNumber |-> -1, size |-> ps]]

Init ==
    /\ pageSize \in 1..MaxPageSize
    /\ totalFrames \in 1..MaxFrames
    /\ ValidConfig(pageSize, totalFrames)
    /\ frames = InitFrames(pageSize, totalFrames)
    /\ pages = <<>>
    /\ jobs = <<>>
    /\ pageTable = <<>>
    /\ nextJobId = 1
    /\ nextPageNumber = 1
    /\ last = NoReport
    /\ issuedJobIds = {}
    /\ issuedPageNumbers = {}
    /\ assignedFrame = <<>>
    /\ inflight = [c \in Callers |-> NotCalling]
    /\ raced = FALSE

\* ---------------------------------------------------------------- acceptJob
\* variant: plain integer division, the partial last page is dropped
PagesNeededFloor(jobSize) == jobSize \div pageSize

\* variant: "one more page than the quotient", wrong for exact multiples
PagesNeededPlusOne(jobSize) == jobSize \div pageSize + 1

\* ceiling division as written: (jobSize + pageSize - 1) / pageSize
PagesNeeded(jobSize) == (jobSize + pageSize - 1) \div pageSize

\* variant: the capacity test written with <= instead of <
AcceptStatusStrict(jobSize) ==
    IF jobSize <= 0 THEN "InvalidArgument"
    ELSE IF jobSize > MAX_JOB_SIZE THEN "InvalidArgument"
    ELSE IF CountFree(frames) <= PagesNeeded(jobSize) THEN "InsufficientFrames"
    ELSE "ok"

\* the validation chain of acceptJob; "ok" when no early return is taken
AcceptStatus(jobSize) ==
    IF jobSize <= 0 THEN "InvalidArgument"
    ELSE IF jobSize > MAX_JOB_SIZE THEN "InvalidArgument"
    ELSE IF CountFree(frames) < PagesNeeded(jobSize) THEN "InsufficientFrames"
    ELSE "ok"

\* variant: the test for an exact fit is missing
InternalFragmentationNoExactFit(jobSize) == pageSize - (jobSize % pageSize)

InternalFragmentation(jobSize) ==
    IF jobSize % pageSize # 0 THEN pageSize - (jobSize % pageSize) ELSE 0

\* availableFrames before the shuffle: free frame numbers in ascending order
RECURSIVE CollectAvailable(_, _)
CollectAvailable(i, acc) ==
    IF i >= totalFrames THEN acc
    ELSE CollectAvailable(i + 1, IF ~frames[i].isOccupied THEN Append(acc, i) ELSE acc)

\* variant: the isOccupied test is dropped, every frame is a candidate
AvailableFramesAll == [k \in 1..totalFrames |-> k - 1]

AvailableFrames == CollectAvailable(0, <<>>)

\* variant: the shuffle is missing, the ascending order is kept
ShufflesNone(s) == {s}

\* every order std::shuffle can leave the vector in
Shuffles(s) ==
    {t \in [1..Len(s) -> {s[k] : k \in 1..Len(s)}] :
        \A a, b \in 1..Len(s) : a # b => t[a] # t[b]}

\* variant: the counter is read but never advanced
PostIncrementStuck(counter) == counter

\* nextJobId++ / nextPageNumber++ : the value of the counter after the increment
PostIncrement(counter) == counter + 1

\* variant: the loop records the page but never sets isOccupied on the frame
RECURSIVE AllocLoopNoMark(_, _, _, _, _)
AllocLoopNoMark(i, pagesNeeded, availableFrames, newJobId, st) ==
    IF i >= pagesNeeded THEN st
    ELSE
      LET frameNumber == availableFrames[i + 1]
          newPage == [pageNumber |-> st.nextPageNumber, frameNumber |-> frameNumber,
                      isValid |-> TRUE, jobId |-> newJobId, offset |-> i * pageSize]
      IN AllocLoopNoMark(i + 1, pagesNeeded, availableFrames, newJobId,
           [nextPageNumber |-> PostIncrement(st.nextPageNumber),
            pages |-> Append(st.pages, newPage),
            newJobPages |-> Append(st.newJobPages, newPage.pageNumber),
            frames |-> [st.frames EXCEPT ![frameNumber] =
                          [@ EXCEPT !.jobId = newJobId, !.pageNumber = newPage.pageNumber]],
            pageTable |-> MapPut(st.pageTable, newPage.pageNumber, frameNumber),
            assigned |-> MapPut(st.assigned, newPage.pageNumber, frameNumber)])

\* the allocation loop: for (i = 0; i < pagesNeeded; i++)
RECURSIVE AllocLoop(_, _, _, _, _)
AllocLoop(i, pagesNeeded, availableFrames, newJobId, st) ==
    IF i >= pagesNeeded THEN st
    ELSE
      LET frameNumber == availableFrames[i + 1]
          newPage == [pageNumber |-> st.nextPageNumber, frameNumber |-> frameNumber,
                      isValid |-> TRUE, jobId |-> newJobId, offset |-> i * pageSize]
      IN AllocLoop(i + 1, pagesNeeded, availableFrames, newJobId,
           [nextPageNumber |-> PostIncrement(st.nextPageNumber),
            pages |-> Append(st.pages, newPage),
            newJobPages |-> Append(st.newJobPages, newPage.pageNumber),
            frames |-> [st.frames EXCEPT ![frameNumber] =
                          [@ EXCEPT !.isOccupied = TRUE, !.jobId = newJobId,
                                    !.pageNumber = newPage.pageNumber]],
            pageTable |-> MapPut(st.pageTable, newPage.pageNumber, frameNumber),
            assigned |-> MapPut(st.assigned, newPage.pageNumber, frameNumber)])

\* variant: the job id is drawn before the validation, so a rejected call consumes one
AcceptRejectLeaksId(jobName, jobSize) ==
    /\ last' = [NoReport EXCEPT !.op = "acceptJob", !.status = AcceptStatus(jobSize),
                                !.jobName = jobName, !.jobSize = jobSize]
    /\ nextJobId' = IF nextJobId <= MaxJobs THEN nextJobId + 1 ELSE nextJobId
    /\ UNCHANGED <<pageSize, totalFrames, frames, pages, jobs, pageTable, nextPageNumber, history, callers>>

\* an early return of acceptJob: the error is printed, nothing else happens
AcceptReject(jobName, jobSize) ==
    /\ last' = [NoReport EXCEPT !.op = "acceptJob", !.status = AcceptStatus(jobSize),
                                !.jobName = jobName, !.jobSize = jobSize]
    /\ UNCHANGED <<state, history, callers>>

\* the rest of acceptJob once validation has passed
AcceptCommit(jobName, jobSize, shuffled) ==
    LET pagesNeeded == PagesNeeded(jobSize)
        newJobId == nextJobId
        st == AllocLoop(0, pagesNeeded, shuffled, newJobId,
                 [nextPageNumber |-> nextPageNumber, pages |-> pages, newJobPages |-> <<>>,
                  frames |-> frames, pageTable |-> pageTable, assigned |-> assignedFrame])
        newJob == [id |-> newJobId, name |-> jobName, size |-> jobSize, pages |-> st.newJobPages]
    IN /\ nextJobId' = PostIncrement(nextJobId)
       /\ nextPageNumber' = st.nextPageNumber
       /\ pages' = st.pages
       /\ frames' = st.frames
       /\ pageTable' = st.pageTable
       /\ jobs' = Append(jobs, newJob)
       /\ issuedJobIds' = issuedJobIds \cup {newJobId}
       /\ issuedPageNumbers' = issuedPageNumbers \cup {st.newJobPages[k] : k \in 1..Len(st.newJobPages)}
       /\ assignedFrame' = st.assigned
       /\ last' = [NoReport EXCEPT !.op = "acceptJob", !.status = "ok", !.jobName = jobName,
                                   !.jobSize = jobSize, !.jobId = newJobId,
                                   !.pagesAllocated = pagesNeeded,
                                   !.internalFragmentation = InternalFragmentation(jobSize),
                                   !.pageNumbers = newJob.pages]
       /\ UNCHANGED <<pageSize, totalFrames, callers>>

AcceptJob(jobName, jobSize) ==
    IF AcceptStatus(jobSize) # "ok"
    THEN AcceptReject(jobName, jobSize)
    ELSE /\ nextJobId <= MaxJobs
         /\ \E shuffled \in Shuffles(AvailableFrames) : AcceptCommit(jobName, jobSize, shuffled)

\* ----------------------------------------------------------- resolveAddress
\* variant: the bounds test written with > instead of >=
ResolveCheckLax(jobId, logicalAddress) ==
    IF logicalAddress < 0 THEN "InvalidArgument"
    ELSE IF FindJob(jobs, jobId) = 0 THEN "NotFound"
    ELSE IF logicalAddress > jobs[FindJob(jobs, jobId)].size THEN "OutOfBounds"
    ELSE "ok"

\* the first three checks of resolveAddress; "ok" when no early return is taken
ResolveCheck(jobId, logicalAddress) ==
    IF logicalAddress < 0 THEN "InvalidArgument"
    ELSE IF FindJob(jobs, jobId) = 0 THEN "NotFound"
    ELSE IF logicalAddress >= jobs[FindJob(jobs, jobId)].size THEN "OutOfBounds"
    ELSE "ok"

\* variant: frames are taken to be numbered from 1
PhysicalAddressOneBased(frameNumber, offset) == (frameNumber + 1) * pageSize + offset

\* variant: the frame number is not scaled by the page size
PhysicalAddressUnscaled(frameNumber, offset) == frameNumber + offset

\* step 5: frameNumber * pageSize + offset
PhysicalAddress(frameNumber, offset) == frameNumber * pageSize + offset

\* what resolveAddress(jobId, logicalAddress) reports; it changes nothing
ResolveAddress(jobId, logicalAddress) ==
    LET base == [NoReport EXCEPT !.op = "resolveAddress", !.jobId = jobId,
                                 !.logicalAddress = logicalAddress]
        idx == FindJob(jobs, jobId)
    IN IF ResolveCheck(jobId, logicalAddress) # "ok"
       THEN [base EXCEPT !.status = ResolveCheck(jobId, logicalAddress)]
       ELSE
         LET pageNumber == logicalAddress \div pageSize
             offset == logicalAddress % pageSize
         IN IF pageNumber >= Len(jobs[idx].pages)
            THEN [base EXCEPT !.status = "OutOfBounds", !.pageNumber = pageNumber,
                              !.offset = offset]
            ELSE
              LET actualPageNumber == jobs[idx].pages[pageNumber + 1]
              IN IF actualPageNumber \notin DOMAIN pageTable
                 THEN [base EXCEPT !.status = "Inconsistency", !.pageNumber = pageNumber,
                                   !.offset = offset, !.actualPageNumber = actualPageNumber]
                 ELSE
                   LET frameNumber == pageTable[actualPageNumber]
                   IN [base EXCEPT !.status = "ok", !.pageNumber = pageNumber,
                                   !.offset = offset, !.actualPageNumber = actualPageNumber,
                                   !.frameNumber = frameNumber,
                                   !.physicalAddress = PhysicalAddress(frameNumber, offset)]

\* variant: the frame is read with pageTable[pageNumber], which inserts a missing key
ResolveAddressCallInserts(jobId, logicalAddress) ==
    /\ last' = ResolveAddress(jobId, logicalAddress)
    /\ pageTable' = IF ResolveCheck(jobId, logicalAddress) = "ok"
                       /\ (logicalAddress \div pageSize) \notin DOMAIN pageTable
                    THEN MapPut(pageTable, logicalAddress \div pageSize, 0)
                    ELSE pageTable
    /\ UNCHANGED <<pageSize, totalFrames, frames, pages, jobs, nextJobId, nextPageNumber,
                   history, callers>>

ResolveAddressCall(jobId, logicalAddress) ==
    /\ last' = ResolveAddress(jobId, logicalAddress)
    /\ UNCHANGED <<state, history, callers>>

\* ------------------------------------------------------- displayMemoryState
DisplayMemoryState ==
    /\ last' = [NoReport EXCEPT !.op = "displayMemoryState", !.usedFrames = CountUsed(frames)]
    /\ UNCHANGED <<state, history, callers>>

\* ---------------------------------------------------------------- removeJob
\* variant: the id test written with < instead of <=
RemoveStatusNegativeOnly(jobId) ==
    IF jobId < 0 THEN "InvalidArgument"
    ELSE IF FindJob(jobs, jobId) = 0 THEN "NotFound"
    ELSE "ok"

\* the validation chain of removeJob; "ok" when no early return is taken
RemoveStatus(jobId) ==
    IF jobId <= 0 THEN "InvalidArgument"
    ELSE IF FindJob(jobs, jobId) = 0 THEN "NotFound"
    ELSE "ok"

\* variant: the frame is marked free but keeps its owner and page fields
FreePageKeepsOwner(st, pageNumber) ==
    IF pageNumber \in DOMAIN st.pageTable
    THEN LET frameNumber == st.pageTable[pageNumber]
         IN [frames |-> [st.frames EXCEPT ![frameNumber] = [@ EXCEPT !.isOccupied = FALSE]],
             pageTable |-> MapErase(st.pageTable, pageNumber)]
    ELSE st

\* variant: the page-table entry is erased under the frame number, not the page number
FreePageErasesByFrame(st, pageNumber) ==
    IF pageNumber \in DOMAIN st.pageTable
    THEN LET frameNumber == st.pageTable[pageNumber]
         IN [frames |-> [st.frames EXCEPT ![frameNumber] =
                            [@ EXCEPT !.isOccupied = FALSE, !.jobId = -1, !.pageNumber = -1]],
             pageTable |-> MapErase(st.pageTable, frameNumber)]
    ELSE st

\* variant: the page-table entry is erased but the frame stays marked occupied
FreePageKeepsOccupied(st, pageNumber) ==
    IF pageNumber \in DOMAIN st.pageTable
    THEN [frames |-> st.frames, pageTable |-> MapErase(st.pageTable, pageNumber)]
    ELSE st

\* body of the loop over job.pages for one page number
FreePage(st, pageNumber) ==
    IF pageNumber \in DOMAIN st.pageTable
    THEN LET frameNumber == st.pageTable[pageNumber]
         IN [frames |-> [st.frames EXCEPT ![frameNumber] =
                            [@ EXCEPT !.isOccupied = FALSE, !.jobId = -1, !.pageNumber = -1]],
             pageTable |-> MapErase(st.pageTable, pageNumber)]
    ELSE st

\* variant: the loop stops one page early
RECURSIVE FreeLoopStopsEarly(_, _, _)
FreeLoopStopsEarly(i, jobPages, st) ==
    IF i >= Len(jobPages) THEN st
    ELSE FreeLoopStopsEarly(i + 1, jobPages, FreePage(st, jobPages[i]))

\* for (int pageNumber : job.pages)
RECURSIVE FreeLoop(_, _, _)
FreeLoop(i, jobPages, st) ==
    IF i > Len(jobPages) THEN st
    ELSE FreeLoop(i + 1, jobPages, FreePage(st, jobPages[i]))

\* variant: the predicate compares the page number, not the owner, with jobId
ErasePagesByNumber(ps, jobId) == SelectSeq(ps, LAMBDA page : page.pageNumber # jobId)

\* how often the loop over job.pages finds no page-table entry and skips the page
RECURSIVE SkippedPages(_, _, _)
SkippedPages(i, jobPages, st) ==
    IF i > Len(jobPages) THEN 0
    ELSE (IF jobPages[i] \in DOMAIN st.pageTable THEN 0 ELSE 1)
            + SkippedPages(i + 1, jobPages, FreePage(st, jobPages[i]))

\* pages.erase(remove_if(... page.jobId == jobId ...))
ErasePages(ps, jobId) == SelectSeq(ps, LAMBDA page : page.jobId # jobId)

\* variant: jobs.erase(it, jobs.end()), the range form
EraseJobToEnd(js, idx) == SubSeq(js, 1, idx - 1)

\* jobs.erase(it)
EraseJob(js, idx) == SubSeq(js, 1, idx - 1) \o SubSeq(js, idx + 1, Len(js))

\* an early return of removeJob
RemoveReject(jobId) ==
    /\ last' = [NoReport EXCEPT !.op = "removeJob", !.status = RemoveStatus(jobId),
                                !.jobId = jobId]
    /\ UNCHANGED <<state, history, callers>>

\* the rest of removeJob once the job has been found
RemoveCommit(jobId) ==
    LET idx == FindJob(jobs, jobId)
        job == jobs[idx]
        st == FreeLoop(1, job.pages, [frames |-> frames, pageTable |-> pageTable])
    IN /\ frames' = st.frames
       /\ pageTable' = st.pageTable
       /\ pages' = ErasePages(pages, jobId)
       /\ jobs' = EraseJob(jobs, idx)
       /\ last' = [NoReport EXCEPT !.op = "removeJob", !.status = "ok", !.jobId = jobId,
                                   !.jobName = job.name, !.pageNumbers = job.pages,
                                   !.framesFreed = Len(job.pages)]
       /\ UNCHANGED <<pageSize, totalFrames, nextJobId, nextPageNumber, history, callers>>

RemoveJob(jobId) ==
    IF RemoveStatus(jobId) # "ok" THEN RemoveReject(jobId) ELSE RemoveCommit(jobId)

\* ---------------------------------------------------------------- menu loop
Next ==
    \/ \E jobName \in JobNames, jobSize \in JobSizes : AcceptJob(jobName, jobSize)
    \/ \E jobId \in JobIdArgs, logicalAddress \in AddressArgs :
           ResolveAddressCall(jobId, logicalAddress)
    \/ DisplayMemoryState
    \/ \E jobId \in JobIdArgs : RemoveJob(jobId)

Spec == Init /\ [][Next]_vars
\* ------------------------------------------- the constructor called directly
\* arguments a caller other than main() may pass to the constructor
CtorPageSizes == {-1, 0} \cup (1..MaxPageSize) \cup {MAX_PAGE_SIZE, MAX_PAGE_SIZE + 1}
CtorFrameCounts == {-1, 0} \cup (1..MaxFrames) \cup {MAX_TOTAL_FRAMES, MAX_TOTAL_FRAMES + 1}

\* variant: the two tests are joined with && instead of ||
CtorStatusBoth(ps, tf) == IF ps <= 0 /\ tf <= 0 THEN "InvalidArgument" ELSE "ok"

\* the constructor's validation: throws invalid_argument or goes on
CtorStatus(ps, tf) == IF ps <= 0 \/ tf <= 0 THEN "InvalidArgument" ELSE "ok"

\* the member initialisers have run, the constructor body has not
CtorInit ==
    /\ pageSize \in CtorPageSizes
    /\ totalFrames \in CtorFrameCounts
    /\ frames = <<>>
    /\ pages = <<>>
    /\ jobs = <<>>
    /\ pageTable = <<>>
    /\ nextJobId = 1
    /\ nextPageNumber = 1
    /\ last = NoReport
    /\ issuedJobIds = {}
    /\ issuedPageNumbers = {}
    /\ assignedFrame = <<>>
    /\ inflight = [c \in Callers |-> NotCalling]
    /\ raced = FALSE

\* the constructor body
Construct ==
    /\ last.op = "none"
    /\ last' = [NoReport EXCEPT !.op = "construct", !.status = CtorStatus(pageSize, totalFrames)]
    /\ frames' = IF CtorStatus(pageSize, totalFrames) = "ok"
                 THEN InitFrames(pageSize, totalFrames)
                 ELSE frames
    /\ UNCHANGED <<pageSize, totalFrames, pages, jobs, pageTable, nextJobId, nextPageNumber,
                   history, callers>>

\* a manager exists; the menu operations are explored for the small configurations
Constructed == last.op # "none" /\ frames # <<>>

CtorNext ==
    \/ Construct
    \/ (Constructed /\ pageSize <= MaxPageSize /\ totalFrames <= MaxFrames /\ Next)

CtorSpec == CtorInit /\ [][CtorNext]_vars

\* ------------------------------ acceptJob entered by two callers without a lock
\* (only acceptJob calls are explored here; the other operations stay as in Spec)
\* first half of acceptJob: validation, free-frame count, job id, free-frame scan
\* and shuffle; the caller then holds its shuffled list as a local
AcceptScan(c, jobName, jobSize) ==
    /\ inflight[c].pc = "idle"
    /\ IF AcceptStatus(jobSize) # "ok"
       THEN AcceptReject(jobName, jobSize)
       ELSE /\ nextJobId <= MaxJobs
            /\ \E shuffled \in Shuffles(AvailableFrames) :
                  inflight' = [inflight EXCEPT ![c] =
                                  [pc |-> "scanned", jobName |-> jobName, jobSize |-> jobSize,
                                   id |-> nextJobId, pagesNeeded |-> PagesNeeded(jobSize),
                                   shuffled |-> shuffled]]
            /\ nextJobId' = PostIncrement(nextJobId)
            /\ issuedJobIds' = issuedJobIds \cup {nextJobId}
            /\ raced' = (raced \/ \E other \in Callers \ {c} : inflight[other].pc = "scanned")
            /\ UNCHANGED <<pageSize, totalFrames, frames, pages, jobs, pageTable,
                           nextPageNumber, last, issuedPageNumbers, assignedFrame>>

\* second half of acceptJob: the allocation loop over the caller's shuffled list,
\* then jobs.push_back and the report
AcceptMark(c) ==
    /\ inflight[c].pc = "scanned"
    /\ LET call == inflight[c]
           st == AllocLoop(0, call.pagesNeeded, call.shuffled, call.id,
                    [nextPageNumber |-> nextPageNumber, pages |-> pages, newJobPages |-> <<>>,
                     frames |-> frames, pageTable |-> pageTable, assigned |-> assignedFrame])
           newJob == [id |-> call.id, name |-> call.jobName, size |-> call.jobSize,
                      pages |-> st.newJobPages]
       IN /\ nextPageNumber' = st.nextPageNumber
          /\ pages' = st.pages
          /\ frames' = st.frames
          /\ pageTable' = st.pageTable
          /\ jobs' = Append(jobs, newJob)
          /\ issuedPageNumbers' = issuedPageNumbers \cup Range(st.newJobPages)
          /\ assignedFrame' = st.assigned
          /\ last' = [NoReport EXCEPT !.op = "acceptJob", !.status = "ok",
                                      !.jobName = call.jobName, !.jobSize = call.jobSize,
                                      !.jobId = call.id, !.pagesAllocated = call.pagesNeeded,
                                      !.internalFragmentation = InternalFragmentation(call.jobSize),
                                      !.pageNumbers = newJob.pages]
    /\ inflight' = [inflight EXCEPT ![c] = NotCalling]
    /\ UNCHANGED <<pageSize, totalFrames, nextJobId, issuedJobIds, raced>>

RaceNext ==
    \/ \E c \in Callers, jobName \in JobNames, jobSize \in JobSizes : AcceptScan(c, jobName, jobSize)
    \/ \E c \in Callers : AcceptMark(c)

RaceSpec == Init /\ [][RaceNext]_vars

\* ===================================================================== claims
LiveJobIds == {jobs[j].id : j \in 1..Len(jobs)}
LivePageNumbers == UNION {Range(jobs[j].pages) : j \in 1..Len(jobs)}
OccupiedFrames == {f \in DOMAIN frames : frames[f].isOccupied}
FreeFrames == {f \in DOMAIN frames : ~frames[f].isOccupied}
CeilDiv(a, b) == IF a % b = 0 THEN a \div b ELSE (a \div b) + 1

RECURSIVE SumPageCounts(_)
SumPageCounts(js) == IF js = <<>> THEN 0 ELSE Len(Head(js).pages) + SumPageCounts(Tail(js))

\* C1: occupied frames and page-table entries are in one-to-one correspondence:
\* every page number of a live job has a page-table entry, every page-table entry
\* belongs to exactly one live job, no two entries map to the same frame, and a
\* frame is marked occupied iff some page-table entry maps to it.
C1_Bijection ==
    /\ \A p \in LivePageNumbers : p \in DOMAIN pageTable
    /\ \A p \in DOMAIN pageTable :
           Cardinality({j \in 1..Len(jobs) : p \in Range(jobs[j].pages)}) = 1
    /\ \A p, q \in DOMAIN pageTable : p # q => pageTable[p] # pageTable[q]
    /\ \A f \in DOMAIN frames :
           frames[f].isOccupied <=> (\E p \in DOMAIN pageTable : pageTable[p] = f)

\* a removal has just succeeded and a two-page job is still resident
C1_Witness ==
    /\ last.op = "removeJob" /\ last.status = "ok"
    /\ Len(jobs) = 1 /\ Len(jobs[1].pages) = 2

\* C2: the number of occupied frames equals the sum of the live jobs' page-list
\* lengths, and never exceeds totalFrames.
C2_OccupiedCount ==
    /\ Cardinality(OccupiedFrames) = SumPageCounts(jobs)
    /\ Cardinality(OccupiedFrames) <= totalFrames

\* two jobs are resident, one of them with two pages
C2_Witness ==
    /\ Len(jobs) = 2 /\ SumPageCounts(jobs) = 3
    /\ last.op = "acceptJob" /\ last.status = "ok"

\* C3: every live job has size > 0 and exactly ceil(size / pageSize) pages (at least
\* one); a successful acceptJob reports exactly that many pages allocated.
C3_PageCount ==
    /\ \A j \in 1..Len(jobs) :
           /\ jobs[j].size > 0
           /\ Len(jobs[j].pages) = CeilDiv(jobs[j].size, pageSize)
           /\ Len(jobs[j].pages) >= 1
    /\ (last.op = "acceptJob" /\ last.status = "ok") =>
           /\ last.pagesAllocated = CeilDiv(last.jobSize, pageSize)
           /\ Len(last.pageNumbers) = last.pagesAllocated

\* a job whose size is an exact multiple of a page size > 1 has just been accepted
C3_Witness ==
    /\ last.op = "acceptJob" /\ last.status = "ok"
    /\ pageSize > 1 /\ last.jobSize % pageSize = 0 /\ last.pagesAllocated = 2

\* C4: a failed acceptJob leaves frames, page table, Page records, job list and
\* both counters exactly as they were before the call.
C4_FailedAcceptUnchanged ==
    [][(last'.op = "acceptJob" /\ last'.status # "ok") =>
          UNCHANGED <<frames, pageTable, pages, jobs, nextJobId, nextPageNumber>>]_vars

\* an acceptJob was refused for lack of frames while a job is resident
C4_Witness ==
    /\ last.op = "acceptJob" /\ last.status = "InsufficientFrames"
    /\ last.jobSize <= MaxJobSize /\ Len(jobs) >= 1

\* C5: acceptJob fails with InvalidArgument exactly when size <= 0 or size > 104857600;
\* otherwise with InsufficientFrames exactly when the free frames before the call are
\* fewer than ceil(size / pageSize); otherwise it succeeds.
C5_AcceptOutcome ==
    [][last'.op = "acceptJob" =>
          last'.status =
             IF last'.jobSize <= 0 \/ last'.jobSize > 104857600 THEN "InvalidArgument"
             ELSE IF Cardinality(FreeFrames) < CeilDiv(last'.jobSize, pageSize)
                  THEN "InsufficientFrames"
                  ELSE "ok"]_vars

\* a request that needed exactly the remaining free frames (more than one) succeeded
C5_Witness ==
    /\ last.op = "acceptJob" /\ last.status = "ok"
    /\ Len(jobs) = 2 /\ last.pagesAllocated = 2 /\ FreeFrames = {}

\* C6: for every live job J and every logical address a with 0 <= a < J.size,
\* resolveAddress(J.id, a) succeeds with pageNumber = a div pageSize, offset =
\* a mod pageSize, actualPageNumber = J.pages[pageNumber], frameNumber = the frame
\* given to that page when J was accepted, physicalAddress = frameNumber * pageSize
\* + offset, and that frame is occupied, owned by J and holds actualPageNumber.
C6_ResolveSucceeds ==
    \A j \in 1..Len(jobs) : \A a \in 0..(jobs[j].size - 1) :
        LET r == ResolveAddress(jobs[j].id, a)
        IN /\ r.status = "ok"
           /\ r.pageNumber * pageSize + r.offset = a
           /\ r.offset >= 0 /\ r.offset < pageSize
           /\ r.pageNumber < Len(jobs[j].pages)
           /\ r.actualPageNumber = jobs[j].pages[r.pageNumber + 1]
           /\ r.actualPageNumber \in DOMAIN assignedFrame
           /\ r.frameNumber = assignedFrame[r.actualPageNumber]
           /\ r.physicalAddress = assignedFrame[r.actualPageNumber] * pageSize + (a % pageSize)
           /\ frames[r.frameNumber].isOccupied
           /\ frames[r.frameNumber].jobId = jobs[j].id
           /\ frames[r.frameNumber].pageNumber = r.actualPageNumber

\* an address in the final, partly used page of a job was resolved, and that page
\* sits on a lower frame than the job's first page
C6_Witness ==
    /\ last.op = "resolveAddress" /\ last.status = "ok"
    /\ last.pageNumber = 1 /\ pageSize = 2
    /\ \E j \in 1..Len(jobs) :
          /\ jobs[j].id = last.jobId /\ jobs[j].size = 3
          /\ pageTable[jobs[j].pages[2]] < pageTable[jobs[j].pages[1]]

\* C7: resolveAddress reports InvalidArgument when the address is negative, whatever
\* the job id; otherwise NotFound when no live job has that id (removed and
\* non-positive ids included); otherwise OutOfBounds when the address is >= the
\* job's size, even inside the job's last allocated page.
C7_ResolveErrors ==
    last.op = "resolveAddress" =>
        /\ last.logicalAddress < 0 => last.status = "InvalidArgument"
        /\ (last.logicalAddress >= 0 /\ last.jobId \notin LiveJobIds) =>
               last.status = "NotFound"
        /\ \A j \in 1..Len(jobs) :
               (last.logicalAddress >= 0 /\ jobs[j].id = last.jobId
                   /\ last.logicalAddress >= jobs[j].size) => last.status = "OutOfBounds"

\* an address past the job's size but inside its last page was refused, while an
\* earlier job has already been removed
C7_Witness ==
    /\ last.op = "resolveAddress" /\ last.status = "OutOfBounds"
    /\ issuedJobIds \ LiveJobIds # {}
    /\ \E j \in 1..Len(jobs) :
          /\ jobs[j].id = last.jobId
          /\ last.logicalAddress >= jobs[j].size
          /\ last.logicalAddress < Len(jobs[j].pages) * pageSize

\* C8: after a successful removeJob(j): j is not live; every frame that held a page
\* of j is free with owner and page cleared; no page-table entry or Page record of j
\* remains; the free-frame count grew by the length of j's page list; the reported
\* framesFreed is the number of frames that went from occupied to free.
C8_RemoveEffect ==
    [][(last'.op = "removeJob" /\ last'.status = "ok") =>
          LET jobId == last'.jobId
              job == jobs[CHOOSE j \in 1..Len(jobs) : jobs[j].id = jobId]
              held == {f \in DOMAIN frames : frames[f].isOccupied /\ frames[f].jobId = jobId}
          IN /\ \E j \in 1..Len(jobs) : jobs[j].id = jobId
             /\ \A j \in 1..Len(jobs') : jobs'[j].id # jobId
             /\ held = {pageTable[p] : p \in Range(job.pages)}
             /\ \A f \in held : /\ ~frames'[f].isOccupied
                                /\ frames'[f].jobId = -1
                                /\ frames'[f].pageNumber = -1
             /\ \A p \in Range(job.pages) :
                    /\ p \notin DOMAIN pageTable'
                    /\ \A k \in 1..Len(pages') : pages'[k].pageNumber # p
             /\ \A k \in 1..Len(pages') : pages'[k].jobId # jobId
             /\ Cardinality({f \in DOMAIN frames' : ~frames'[f].isOccupied})
                   = Cardinality(FreeFrames) + Len(job.pages)
             /\ last'.framesFreed
                   = Cardinality({f \in DOMAIN frames :
                                     frames[f].isOccupied /\ ~frames'[f].isOccupied})]_vars

\* a two-page job was removed while another job stays resident
C8_Witness ==
    /\ last.op = "removeJob" /\ last.status = "ok"
    /\ last.framesFreed = 2 /\ Len(jobs) = 1

\* C9: removeJob reports InvalidArgument when jobId <= 0 and NotFound when jobId > 0
\* names no live job (never issued or already removed); in both cases frames, page
\* table, Page records, job list and both counters are unchanged.
C9_RemoveErrors ==
    [][last'.op = "removeJob" =>
          /\ last'.jobId <= 0 => last'.status = "InvalidArgument"
          /\ (last'.jobId > 0 /\ last'.jobId \notin LiveJobIds) => last'.status = "NotFound"
          /\ last'.status # "ok" =>
                UNCHANGED <<frames, pageTable, pages, jobs, nextJobId, nextPageNumber>>]_vars

\* removeJob was refused for an id that had been issued and already removed
C9_Witness ==
    /\ last.op = "removeJob" /\ last.status = "NotFound"
    /\ last.jobId \in issuedJobIds /\ Len(jobs) >= 1

\* C10: job ids and page numbers are never reused: every successful acceptJob hands
\* out a job id greater than every id issued before and page numbers greater than
\* every page number issued before, also after removals; live job ids are pairwise
\* distinct and live page numbers are pairwise distinct.
C10_NoReuse ==
    [][/\ (last'.op = "acceptJob" /\ last'.status = "ok") =>
            /\ \A i \in issuedJobIds : last'.jobId > i
            /\ \A k \in 1..Len(last'.pageNumbers) :
                  /\ \A p \in issuedPageNumbers : last'.pageNumbers[k] > p
                  /\ \A m \in 1..(k - 1) : last'.pageNumbers[m] < last'.pageNumbers[k]
            /\ jobs'[Len(jobs')].id = last'.jobId
            /\ jobs'[Len(jobs')].pages = last'.pageNumbers
       /\ \A a, b \in 1..Len(jobs') : a # b => jobs'[a].id # jobs'[b].id
       /\ \A a, b \in 1..Len(jobs') : \A k \in 1..Len(jobs'[a].pages) :
              \A m \in 1..Len(jobs'[b].pages) :
                 (a # b \/ k # m) => jobs'[a].pages[k] # jobs'[b].pages[m]]_vars

\* a job was accepted after an earlier job, and its pages, had been removed
C10_Witness ==
    /\ last.op = "acceptJob" /\ last.status = "ok"
    /\ issuedJobIds \ LiveJobIds # {}
    /\ issuedPageNumbers \ LivePageNumbers # {}

\* C11: the Inconsistency condition is unreachable: no resolveAddress call finds a
\* live job's page missing from the page table, and no removeJob of a live job would
\* meet a page without a page-table entry (the silent-skip branch is never taken).
C11_NoInconsistency ==
    /\ \A jobId \in JobIdArgs : \A a \in AddressArgs :
           ResolveAddress(jobId, a).status # "Inconsistency"
    /\ last.status # "Inconsistency"
    /\ \A j \in 1..Len(jobs) :
           SkippedPages(1, jobs[j].pages, [frames |-> frames, pageTable |-> pageTable]) = 0

\* after one of two resident jobs was removed, an address of the other is resolved
C11_Witness ==
    /\ last.op = "resolveAddress" /\ last.status = "ok"
    /\ Len(jobs) = 1 /\ jobs[1].id = 2 /\ issuedJobIds = {1, 2}
    /\ last.actualPageNumber \in DOMAIN pageTable

\* C12: resolveAddress, on success and on every error path, and displayMemoryState
\* never modify frames, page table, Page records, job list or the two counters, so
\* a repeated call reports the same result.
C12_ReadOnly ==
    [][last'.op \in {"resolveAddress", "displayMemoryState"} =>
          /\ UNCHANGED <<pageSize, totalFrames, frames, pageTable, pages, jobs,
                         nextJobId, nextPageNumber>>
          /\ last'.op = "resolveAddress" =>
                last' = ResolveAddress(last'.jobId, last'.logicalAddress)]_vars

\* an address in the second page of a resident job has been resolved
C12_Witness ==
    /\ last.op = "resolveAddress" /\ last.status = "ok" /\ last.pageNumber = 1
    /\ CountUsed(frames) >= 2

\* C13: a successful acceptJob reports internal fragmentation 0 when size is a
\* multiple of pageSize and pageSize - (size mod pageSize) otherwise; that equals
\* pagesAllocated * pageSize - size and lies in [0, pageSize - 1].
C13_Fragmentation ==
    (last.op = "acceptJob" /\ last.status = "ok") =>
        /\ last.internalFragmentation = last.pagesAllocated * pageSize - last.jobSize
        /\ last.internalFragmentation >= 0
        /\ last.internalFragmentation <= pageSize - 1
        /\ (last.jobSize % pageSize = 0) <=> (last.internalFragmentation = 0)

\* a job that leaves part of its second page unused has been accepted
C13_Witness ==
    /\ last.op = "acceptJob" /\ last.status = "ok"
    /\ last.pagesAllocated = 2 /\ last.internalFragmentation = 1 /\ pageSize = 2

\* C14 (as claimed): construction fails with InvalidArgument when pageSize <= 0 or
\* totalFrames <= 0, and the constructor itself also rejects pageSize > 1048576 and
\* totalFrames > 1000; a successful construction yields frames 0..totalFrames-1, all
\* free, with empty page table and job list.
C14_CoreRejectsOverLimit ==
    last.op = "construct" =>
        /\ (pageSize <= 0 \/ totalFrames <= 0 \/ pageSize > 1048576 \/ totalFrames > 1000)
              => last.status = "InvalidArgument"
        /\ last.status = "ok" =>
              /\ DOMAIN frames = 0..(totalFrames - 1)
              /\ \A f \in DOMAIN frames : ~frames[f].isOccupied
              /\ pageTable = <<>> /\ jobs = <<>>

\* C14 (amended): construction fails with InvalidArgument exactly when pageSize <= 0
\* or totalFrames <= 0; the constructor accepts pageSize > 1048576 and totalFrames >
\* 1000 (only main() refuses them); a successful construction yields frames
\* 0..totalFrames-1, all free and unowned, with empty page table and job list.
C14_Construction ==
    last.op = "construct" =>
        /\ (last.status = "InvalidArgument") <=> (pageSize <= 0 \/ totalFrames <= 0)
        /\ last.status \in {"InvalidArgument", "ok"}
        /\ last.status = "InvalidArgument" => frames = <<>>
        /\ last.status = "ok" =>
              /\ DOMAIN frames = 0..(totalFrames - 1)
              /\ \A f \in DOMAIN frames :
                    /\ frames[f].frameNumber = f
                    /\ ~frames[f].isOccupied
                    /\ frames[f].jobId = -1 /\ frames[f].pageNumber = -1
                    /\ frames[f].size = pageSize
              /\ pageTable = <<>> /\ jobs = <<>> /\ pages = <<>>
              /\ nextJobId = 1 /\ nextPageNumber = 1

\* the constructor has built a manager with more frames and a larger page than main() allows
C14_Witness ==
    /\ last.op = "construct" /\ last.status = "ok"
    /\ totalFrames = 1001 /\ pageSize = 1048577
    /\ Cardinality(DOMAIN frames) = 1001

\* C15: frames freed by removeJob are reusable: after a successful removeJob every
\* frame the job held is free and is a candidate of the next acceptJob (any free
\* frame can come first in the shuffle); an acceptJob succeeds whenever the free
\* frames have reached its page need; with no live job all frames are free and the
\* page table is empty.
C15_FreedFramesReusable ==
    [][(last'.op = "removeJob" /\ last'.status = "ok") =>
          /\ \A f \in DOMAIN frames :
                (frames[f].isOccupied /\ frames[f].jobId = last'.jobId) =>
                   /\ ~frames'[f].isOccupied
                   /\ f \in Range(AvailableFrames')
                   /\ \E shuffled \in Shuffles(AvailableFrames') : shuffled[1] = f
          /\ \A jobSize \in 1..MaxJobSize :
                (Cardinality({f \in DOMAIN frames' : ~frames'[f].isOccupied})
                     >= CeilDiv(jobSize, pageSize)) => AcceptStatus(jobSize)' = "ok"
          /\ jobs' = <<>> =>
                /\ \A f \in DOMAIN frames' : ~frames'[f].isOccupied
                /\ pageTable' = <<>>]_vars

\* a job has been accepted on a frame that a removed job had held before
C15_Witness ==
    /\ last.op = "acceptJob" /\ last.status = "ok"
    /\ \E p \in issuedPageNumbers \ LivePageNumbers : \E q \in LivePageNumbers :
          assignedFrame[p] = assignedFrame[q]
    /\ FreeFrames = {}

\* C16: a successful acceptJob puts its pages only on frames that were free before
\* the call, on pairwise distinct frames, and leaves every other frame, every
\* existing page-table entry and every existing job record unchanged; every ordered
\* choice of pagesNeeded distinct free frames is a possible outcome.
C16_AcceptFrameEffect ==
    [][(last'.op = "acceptJob" /\ last'.status = "ok") =>
            LET new == last'.pageNumbers
                chosen == {pageTable'[new[k]] : k \in 1..Len(new)}
            IN /\ \A k \in 1..Len(new) : new[k] \notin DOMAIN pageTable
               /\ chosen \subseteq FreeFrames
               /\ Cardinality(chosen) = Len(new)
               /\ \A f \in DOMAIN frames : f \notin chosen => frames'[f] = frames[f]
               /\ \A f \in chosen : frames'[f].isOccupied /\ frames'[f].jobId = last'.jobId
               /\ \A p \in DOMAIN pageTable :
                     p \in DOMAIN pageTable' /\ pageTable'[p] = pageTable[p]
               /\ DOMAIN pageTable' = DOMAIN pageTable \cup Range(new)
               /\ SubSeq(jobs', 1, Len(jobs)) = jobs
               /\ Len(jobs') = Len(jobs) + 1
               /\ SubSeq(pages', 1, Len(pages)) = pages
               /\ \A sel \in [1..Len(new) -> FreeFrames] :
                     (\A a, b \in 1..Len(new) : a # b => sel[a] # sel[b]) =>
                        \E shuffled \in Shuffles(AvailableFrames) :
                           SubSeq(shuffled, 1, Len(new)) = sel]_vars

\* a two-page job has been accepted with its second page on a lower frame than its
\* first, the two frames not adjacent
C16_Witness ==
    /\ last.op = "acceptJob" /\ last.status = "ok" /\ Len(last.pageNumbers) = 2
    /\ pageTable[last.pageNumbers[1]] = 2 /\ pageTable[last.pageNumbers[2]] = 0

\* C17: a successful removeJob(j) changes nothing that belongs to other jobs: their
\* records and page lists, their page-table entries and Page records, every frame
\* not held by j, and both counters are unchanged; resolveAddress for any other job
\* reports the same before and after.
C17_RemoveFrame ==
    [][(last'.op = "removeJob" /\ last'.status = "ok") =>
          LET jobId == last'.jobId
          IN /\ jobs' = SelectSeq(jobs, LAMBDA job : job.id # jobId)
             /\ pages' = SelectSeq(pages, LAMBDA page : page.jobId # jobId)
             /\ \A p \in DOMAIN pageTable :
                   (\E j \in 1..Len(jobs) : jobs[j].id # jobId /\ p \in Range(jobs[j].pages))
                      => (p \in DOMAIN pageTable' /\ pageTable'[p] = pageTable[p])
             /\ \A f \in DOMAIN frames :
                   ~(frames[f].isOccupied /\ frames[f].jobId = jobId) => frames'[f] = frames[f]
             /\ nextJobId' = nextJobId /\ nextPageNumber' = nextPageNumber
             /\ \A other \in LiveJobIds \ {jobId} : \A a \in AddressArgs :
                   ResolveAddress(other, a)' = ResolveAddress(other, a)]_vars

\* the first of two resident jobs has been removed and the second is still there
C17_Witness ==
    /\ last.op = "removeJob" /\ last.status = "ok" /\ last.jobId = 1
    /\ Len(jobs) = 1 /\ jobs[1].id = 2 /\ Len(jobs[1].pages) >= 1

\* two page-table entries of different live jobs point at the same frame
SharedFrame ==
    \E a, b \in 1..Len(jobs) : a # b /\
       \E p \in Range(jobs[a].pages) \cap DOMAIN pageTable :
          \E q \in Range(jobs[b].pages) \cap DOMAIN pageTable : pageTable[p] = pageTable[q]

\* C18: when acceptJob's free-frame scan and its marking loop can interleave with
\* another acceptJob, a state with two jobs' pages on one frame is reachable; as long
\* as every acceptJob ran start to end with no other one under way, no two page-table
\* entries share a frame and every mapped frame is marked occupied.
C18_SharedFrameOnlyByRace ==
    ~raced =>
       /\ ~SharedFrame
       /\ \A p, q \in DOMAIN pageTable : p # q => pageTable[p] # pageTable[q]
       /\ \A p \in DOMAIN pageTable : frames[pageTable[p]].isOccupied

\* two interleaved acceptJob calls have both finished and their jobs share a frame
C18_Witness ==
    /\ raced /\ SharedFrame
    /\ \A c \in Callers : inflight[c].pc = "idle"
    /\ Len(jobs) = 2

\* C19 (as claimed): for a live job whose size is an exact multiple of pageSize the
\* page-index check of resolveAddress is not redundant: some address passes the size
\* check and is then rejected by the page-index check.
C19_IndexCheckNeededWhenAligned ==
    \A j \in 1..Len(jobs) :
        jobs[j].size % pageSize = 0 =>
           \E a \in 0..(jobs[j].size - 1) :
              /\ ResolveCheck(jobs[j].id, a) = "ok"
              /\ ResolveAddress(jobs[j].id, a).status = "OutOfBounds"

\* C19 (amended): the page-index check of resolveAddress is redundant with the size
\* check for every live job, page-aligned or not: no address that passes the size
\* check is rejected by the page-index check, and every OutOfBounds report comes
\* from the size check.
C19_IndexCheckRedundant ==
    /\ \A j \in 1..Len(jobs) : \A a \in AddressArgs :
           ResolveCheck(jobs[j].id, a) = "ok" =>
              /\ a \div pageSize < Len(jobs[j].pages)
              /\ ResolveAddress(jobs[j].id, a).status # "OutOfBounds"
    /\ (last.op = "resolveAddress" /\ last.status = "OutOfBounds") =>
           \E j \in 1..Len(jobs) :
              jobs[j].id = last.jobId /\ last.logicalAddress >= jobs[j].size

\* the last byte of a page-aligned two-page job has been resolved
C19_Witness ==
    /\ last.op = "resolveAddress" /\ last.status = "ok" /\ last.pageNumber = 1
    /\ \E j \in 1..Len(jobs) :
          /\ jobs[j].id = last.jobId
          /\ jobs[j].size % pageSize = 0
          /\ last.logicalAddress = jobs[j].size - 1

\* C20: the three bookkeeping structures agree: for an occupied frame f,
\* frames[f].pageNumber = p and frames[f].jobId = j exactly when pageTable[p] = f and
\* p is in live job j's page list; each page-table entry has exactly one Page record,
\* with the same frame, isValid true, owner j and offset (index of p in j's list) *
\* pageSize; every free frame has owner and page -1.
C20_BookkeepingAgrees ==
    /\ \A f \in DOMAIN frames :
          /\ frames[f].frameNumber = f /\ frames[f].size = pageSize
          /\ ~frames[f].isOccupied => (frames[f].jobId = -1 /\ frames[f].pageNumber = -1)
          /\ frames[f].isOccupied =>
                \A p \in LivePageNumbers \cup DOMAIN pageTable \cup {frames[f].pageNumber} :
                   \A id \in LiveJobIds \cup {frames[f].jobId} :
                      (frames[f].pageNumber = p /\ frames[f].jobId = id)
                         <=> (/\ p \in DOMAIN pageTable /\ pageTable[p] = f
                              /\ \E j \in 1..Len(jobs) :
                                    jobs[j].id = id /\ p \in Range(jobs[j].pages))
    /\ \A p \in DOMAIN pageTable :
          /\ Cardinality({k \in 1..Len(pages) : pages[k].pageNumber = p}) = 1
          /\ \A k \in 1..Len(pages) : pages[k].pageNumber = p =>
                /\ pages[k].frameNumber = pageTable[p]
                /\ pages[k].isValid
                /\ \E j \in 1..Len(jobs) : \E idx \in 1..Len(jobs[j].pages) :
                      /\ jobs[j].pages[idx] = p
                      /\ pages[k].jobId = jobs[j].id
                      /\ pages[k].offset = (idx - 1) * pageSize
    /\ \A k \in 1..Len(pages) : pages[k].pageNumber \in DOMAIN pageTable

\* after a removal, a resident two-page job and a free frame are left
C20_Witness ==
    /\ last.op = "removeJob" /\ last.status = "ok"
    /\ Len(jobs) = 1 /\ Len(jobs[1].pages) = 2 /\ Len(pages) = 2
    /\ Cardinality(FreeFrames) = 1

\* C21: address translation isolates jobs: every physical address a successful
\* resolveAddress returns lies in [0, totalFrames * pageSize), and two successful
\* resolutions with different (jobId, logicalAddress) never return the same physical
\* address.
C21_Isolation ==
    LET calls == JobIdArgs \X (0..MaxJobSize)
        resolved == {x \in calls : ResolveCheck(x[1], x[2]) = "ok"}
        report == [x \in resolved |-> ResolveAddress(x[1], x[2])]
    IN /\ \A x \in resolved :
             report[x].status = "ok" =>
                /\ report[x].physicalAddress >= 0
                /\ report[x].physicalAddress < totalFrames * pageSize
                /\ \A y \in resolved :
                      (report[y].status = "ok" /\ x # y) =>
                         report[x].physicalAddress # report[y].physicalAddress
       /\ (last.op = "resolveAddress" /\ last.status = "ok") =>
             /\ <<last.jobId, last.logicalAddress>> \in resolved
             /\ last.physicalAddress >= 0
             /\ last.physicalAddress < totalFrames * pageSize

\* with two jobs resident, the highest byte of physical memory has been resolved
C21_Witness ==
    /\ last.op = "resolveAddress" /\ last.status = "ok"
    /\ Len(jobs) = 2 /\ pageSize = 2
    /\ last.physicalAddress = totalFrames * pageSize - 1

====
